---------------------------- MODULE Spec2Model ----------------------------
(***************************************************************************)
(* Greenhouse telemetry: the data generator / publisher                    *)
(* (CPC_data_generator.py) and the trend analysis / dashboard              *)
(* (CPC_Visualization.py).                                                 *)
(*                                                                         *)
(* Numbers.  Real-valued quantities of the generator are fixed-point       *)
(* integers in units of 1/Unit.  A stored temperature is an integer number *)
(* of tenths of a degree (the code rounds it to one decimal).  The results *)
(* of the analysis functions (means, slopes, R^2) are exact rationals      *)
(* [num, den] in lowest terms with den > 0.                                *)
(***************************************************************************)
EXTENDS Integers, Sequences, FiniteSets, TLC

VARIABLES
    \* ---- send_data (CPC_data_generator.py) ----
    pc,            \* position of send_data
    stream,        \* the random stream np.random.normal draws from in this run
    documents,     \* generate_data: the list being built
    sample_data,   \* send_data: the list generate_data returned
    k,             \* send_data: index of the document the for loop is at
    collection,    \* the MongoDB collection greenhouse.data
    old,           \* the collection's contents when the run started
    published,     \* payloads handed to client.publish, in order
    log,           \* the calls send_data has completed, in order
    \* ---- create_visualization (CPC_Visualization.py) ----
    vpc,           \* position of create_visualization
    series,        \* timestamps and the five value lists
    trends,        \* metric -> (slope, intercept, r2) fitted so far
    calls,         \* calls made to calculate_moving_average / predict_trend
    trend_narratives,
    outcome,       \* how create_visualization ended
    \* ---- one call of a pure function ----
    fn,            \* which function is called
    args,          \* its arguments
    ret            \* its result ("pending" before the call)

genVars  == <<pc, stream, documents, sample_data, k, collection, old, published, log>>
vizVars  == <<vpc, series, trends, calls, trend_narratives, outcome>>
callVars == <<fn, args, ret>>
vars     == <<genVars, vizVars, callVars>>

----------------------------------------------------------------------------
(* Bounds of the model *)

\* random streams enumerated: 0..MaxStream
MaxStream == 4
\* longest sequence handed to calculate_moving_average / predict_trend
MaxLen == 4
\* largest value in such a sequence
MaxVal == 2
\* largest window tried
MaxWindow == 5
\* most documents in the collection create_visualization reads
MaxDocs == 4
\* a noise sample of the bounds check is up to NoiseMax standard deviations
NoiseMax == 400

----------------------------------------------------------------------------
(* Exact rationals *)

Abs(n) == IF n < 0 THEN -n ELSE n

RECURSIVE GCD(_, _)
GCD(a, b) == IF b = 0 THEN a ELSE GCD(b, a % b)

Rat(n, d) ==
    LET g == GCD(Abs(n), Abs(d))
        s == IF d < 0 THEN -1 ELSE 1
    IN  [num |-> s * (n \div g), den |-> s * (d \div g)]

RInt(n)      == [num |-> n, den |-> 1]
RatAdd(p, q) == Rat(p.num * q.den + q.num * p.den, p.den * q.den)
RatSub(p, q) == Rat(p.num * q.den - q.num * p.den, p.den * q.den)
RatMul(p, q) == Rat(p.num * q.num, p.den * q.den)
RatDiv(p, q) == Rat(p.num * q.den, p.den * q.num)
RatLt(p, q)  == p.num * q.den < q.num * p.den
RatLe(p, q)  == p.num * q.den <= q.num * p.den
RatAbs(p)    == [num |-> Abs(p.num), den |-> p.den]

RECURSIVE RatSum(_)
RatSum(s) == IF s = <<>> THEN RInt(0) ELSE RatAdd(Head(s), RatSum(Tail(s)))

RatSeq(s) == [j \in 1..Len(s) |-> RInt(s[j])]

----------------------------------------------------------------------------
(* generate_data: the signal model *)

\* fixed-point units per 1.0
Unit == 1000

\* range(48)
NumReadings == 48

\* timedelta(minutes=30 * i)
IntervalMinutes == 30

\* 1000 * sin(j * 7.5 degrees), j = 0..12
SinTable == <<0, 131, 259, 383, 500, 609, 707, 793, 866, 924, 966, 991, 1000>>

\* 1000 * sin(a * 7.5 degrees) for any integer a
Sin(a) ==
    LET m == a % 48
    IN  IF m = 0 THEN 0
        ELSE IF m <= 12 THEN SinTable[m + 1]
        ELSE IF m <= 24 THEN SinTable[(24 - m) + 1]
        ELSE IF m <= 36 THEN -SinTable[(m - 24) + 1]
        ELSE -SinTable[(48 - m) + 1]

\* Unit * sin((h - 6) * pi / 12) for h given in half-hours (h = halves / 2)
SinHour(halves) == Sin(halves - 12)

\* start_time + timedelta(minutes=30 * i), in minutes after start_time (midnight)
current_time_hourly(i) == 60 * i
current_time(i) == IntervalMinutes * i

\* current_time.hour, returned in half-hours: datetime.hour is the whole hour
hour(t) == 2 * ((t \div 60) % 24)

temp_cycle(h)  == 4 * SinHour(h)
light_cycle(h) == IF 12 <= h /\ h <= 36 THEN 50000 * SinHour(h) ELSE 0
co2_cycle(h)   == -200 * SinHour(h)

Max(a, b) == IF a > b THEN a ELSE b
Min(a, b) == IF a < b THEN a ELSE b

\* int(v) of a float v given in fixed point: truncation toward zero
int(v) == IF v >= 0 THEN v \div Unit ELSE -((-v) \div Unit)

\* round(v, 1) of a float v given in fixed point, in tenths; a tie goes to even
round1(v) ==
    LET step == Unit \div 10
        q == v \div step
        r == v % step
    IN  IF 2 * r < step THEN q
        ELSE IF 2 * r > step THEN q + 1
        ELSE IF q % 2 = 0 THEN q ELSE q + 1

\* base values (lines 22-26), fixed point
temp          == 25 * Unit
humidity      == 75 * Unit
soil_moisture == 65 * Unit
light_level   == 0
co2_level     == 800 * Unit

final_temp_unclamped(cycle, variation) == round1(temp + cycle + variation)
final_temp(cycle, variation) ==
    round1(Max(Min(temp + cycle + variation, 35 * Unit), 15 * Unit))
final_humidity(variation) ==
    int(Min(Max(humidity + variation, 60 * Unit), 90 * Unit))
final_soil_moisture(variation) ==
    int(Min(Max(soil_moisture + variation, 50 * Unit), 80 * Unit))
final_light(cycle, variation) ==
    Max(int(light_level + cycle + variation), 0)
final_co2(cycle, variation) ==
    Max(int(co2_level + cycle + variation), 400)

\* the body of the for loop: the document of reading i, given the hour the
\* cycles are evaluated at (in half-hours) and the five noise samples
Document(t, h, n) ==
    LET ft == final_temp(temp_cycle(h), n.temp)
        fh == final_humidity(n.humidity)
        fs == final_soil_moisture(n.soil_moisture)
        fl == final_light(light_cycle(h), n.light)
        fc == final_co2(co2_cycle(h), n.co2)
    IN  [ timestamp |-> t,
          data |-> [ temperature |-> ft, humidity |-> fh, soil_moisture |-> fs,
                     light_level |-> fl, co2_level |-> fc ],
          formatted_data |-> <<t, ft, fh, fs, fl, fc>> ]

reading(i, n) == Document(current_time(i), hour(current_time(i)), n)


----------------------------------------------------------------------------
(* The random source.  np.random.normal draws from the process-wide         *)
(* generator, so one run is one stream of samples; runs are enumerated over  *)
(* the streams 0..MaxStream: 0 is all zeros, 1 and 2 stay within one and two *)
(* standard deviations, the others are far in the tails (both signs).        *)

\* np.random.normal(0, sigma): sigma in fixed point (lines 46-50)
Sigma == [ temp |-> 300, humidity |-> 2000, soil_moisture |-> 1000,
           light |-> 1000000, co2 |-> 50000 ]

\* sample j of stream s, in quarters of a standard deviation
Quarters(s, j) ==
    CASE s = 0 -> 0
      [] s = 1 -> ((7 * j) % 9) - 4
      [] s = 2 -> ((5 * j + 3) % 17) - 8
      [] OTHER -> (IF (s + j) % 2 = 0 THEN 1 ELSE -1) * 100 * s

Scaled(sigma, quarters) ==
    IF quarters >= 0 THEN (sigma * quarters) \div 4 ELSE -((sigma * (-quarters)) \div 4)

\* the five samples drawn for reading i, in the order of lines 46-50
NoiseAt(s, i) ==
    [ temp          |-> Scaled(Sigma.temp, Quarters(s, 5 * i)),
      humidity      |-> Scaled(Sigma.humidity, Quarters(s, 5 * i + 1)),
      soil_moisture |-> Scaled(Sigma.soil_moisture, Quarters(s, 5 * i + 2)),
      light         |-> Scaled(Sigma.light, Quarters(s, 5 * i + 3)),
      co2           |-> Scaled(Sigma.co2, Quarters(s, 5 * i + 4)) ]

----------------------------------------------------------------------------
(* send_data *)

\* documents a previous run, or another writer, left in the collection
LegacyDoc == [ timestamp |-> 0,
               data |-> [ temperature |-> 222, humidity |-> 70, soil_moisture |-> 60,
                          light_level |-> 10, co2_level |-> 700 ],
               formatted_data |-> <<0, 222, 70, 60, 10, 700>> ]
BareDoc   == [ timestamp |-> 30 ]
OldStores == { <<>>, <<LegacyDoc>>, <<LegacyDoc, BareDoc>> }

Event(op, doc) == [op |-> op, doc |-> doc]

\* statements inside the try block (lines 96-122)
TryPcs == {"connect", "loop_start", "generate", "delete", "publish", "insert", "sleep", "report"}

GenIdle ==
    /\ pc = "idle" /\ stream = 0 /\ documents = <<>> /\ sample_data = <<>> /\ k = 0
    /\ collection = <<>> /\ old = <<>> /\ published = <<>> /\ log = <<>>

SendInit ==
    /\ pc = "connect"
    /\ stream \in 0..MaxStream
    /\ documents = <<>>
    /\ sample_data = <<>>
    /\ k = 0
    /\ old \in OldStores
    /\ collection = old
    /\ published = <<>>
    /\ log = <<>>

\* client.connect(mqtt_broker_address, 1883, 60)
Connect ==
    /\ pc = "connect"
    /\ pc' = "loop_start"
    /\ log' = Append(log, Event("connect", 0))
    /\ UNCHANGED <<stream, documents, sample_data, k, collection, old, published>>
    /\ UNCHANGED <<vizVars, callVars>>

\* client.loop_start()
LoopStart ==
    /\ pc = "loop_start"
    /\ pc' = "generate"
    /\ log' = Append(log, Event("loop_start", 0))
    /\ UNCHANGED <<stream, documents, sample_data, k, collection, old, published>>
    /\ UNCHANGED <<vizVars, callVars>>

\* generate_data: one pass of its for loop
GenerateStep ==
    /\ pc = "generate"
    /\ Len(documents) < NumReadings
    /\ documents' = Append(documents, reading(Len(documents), NoiseAt(stream, Len(documents))))
    /\ UNCHANGED <<pc, stream, sample_data, k, collection, old, published, log>>
    /\ UNCHANGED <<vizVars, callVars>>

\* generate_data returns; sample_data = generate_data()
GenerateReturn ==
    /\ pc = "generate"
    /\ Len(documents) = NumReadings
    /\ sample_data' = documents
    /\ pc' = "delete"
    /\ log' = Append(log, Event("generate", 0))
    /\ UNCHANGED <<stream, documents, k, collection, old, published>>
    /\ UNCHANGED <<vizVars, callVars>>

\* collection.delete_many({}), then the for loop is entered
DeleteManySkipped ==
    /\ pc = "delete"
    /\ k' = 1
    /\ pc' = IF sample_data = <<>> THEN "report" ELSE "publish"
    /\ log' = Append(log, Event("delete", 0))
    /\ UNCHANGED <<stream, documents, sample_data, collection, old, published>>
    /\ UNCHANGED <<vizVars, callVars>>

DeleteMany ==
    /\ pc = "delete"
    /\ collection' = <<>>
    /\ k' = 1
    /\ pc' = IF sample_data = <<>> THEN "report" ELSE "publish"
    /\ log' = Append(log, Event("delete", 0))
    /\ UNCHANGED <<stream, documents, sample_data, old, published>>
    /\ UNCHANGED <<vizVars, callVars>>

\* client.publish(mqtt_topic, doc['formatted_data'])
Publish ==
    /\ pc = "publish"
    /\ published' = Append(published, sample_data[k].formatted_data)
    /\ pc' = "insert"
    /\ log' = Append(log, Event("publish", k))
    /\ UNCHANGED <<stream, documents, sample_data, k, collection, old>>
    /\ UNCHANGED <<vizVars, callVars>>

\* collection.insert_one(doc)
InsertOne ==
    /\ pc = "insert"
    /\ collection' = Append(collection, sample_data[k])
    /\ pc' = "sleep"
    /\ log' = Append(log, Event("insert", k))
    /\ UNCHANGED <<stream, documents, sample_data, k, old, published>>
    /\ UNCHANGED <<vizVars, callVars>>

\* time.sleep(1), then the next document or the end of the loop
Sleep ==
    /\ pc = "sleep"
    /\ k' = k + 1
    /\ pc' = IF k = Len(sample_data) THEN "report" ELSE "publish"
    /\ UNCHANGED <<stream, documents, sample_data, collection, old, published, log>>
    /\ UNCHANGED <<vizVars, callVars>>

\* print(f"Successfully processed ...")
Report ==
    /\ pc = "report"
    /\ pc' = "loop_stop"
    /\ log' = Append(log, Event("success", 0))
    /\ UNCHANGED <<stream, documents, sample_data, k, collection, old, published>>
    /\ UNCHANGED <<vizVars, callVars>>

\* the statement send_data is at raises: except Exception prints, finally follows.
\* A call that raises has had no effect on the broker or the collection.
Raise ==
    /\ pc \in TryPcs
    /\ pc' = "loop_stop"
    /\ log' = Append(log, Event("error", 0))
    /\ UNCHANGED <<stream, documents, sample_data, k, collection, old, published>>
    /\ UNCHANGED <<vizVars, callVars>>

\* finally: client.loop_stop()
LoopStop ==
    /\ pc = "loop_stop"
    /\ pc' = "disconnect"
    /\ log' = Append(log, Event("loop_stop", 0))
    /\ UNCHANGED <<stream, documents, sample_data, k, collection, old, published>>
    /\ UNCHANGED <<vizVars, callVars>>

\* finally: client.disconnect()
Disconnect ==
    /\ pc = "disconnect"
    /\ pc' = "done"
    /\ log' = Append(log, Event("disconnect", 0))
    /\ UNCHANGED <<stream, documents, sample_data, k, collection, old, published>>
    /\ UNCHANGED <<vizVars, callVars>>

send_data ==
    \/ Connect
    \/ LoopStart
    \/ GenerateStep
    \/ GenerateReturn
    \/ DeleteMany
    \/ Publish
    \/ InsertOne
    \/ Sleep
    \/ Report
    \/ Raise
    \/ LoopStop
    \/ Disconnect

----------------------------------------------------------------------------
(* Results.  A call returns [error |-> "", value |-> v] or raises:          *)
(* [error |-> <exception>, value |-> <<>>].                                *)

Return(v)    == [error |-> "", value |-> v]
Raises(e)    == [error |-> e, value |-> <<>>]
Pending      == [error |-> "pending", value |-> <<>>]

----------------------------------------------------------------------------
(* calculate_moving_average *)

\* np.ones(window) / window
ones_over(window) == [j \in 1..window |-> Rat(1, window)]

\* np.convolve(a, v, mode='valid'): the longer argument is taken as the signal,
\* an empty argument raises, and the result has max(M, N) - min(M, N) + 1 elements
convolve_valid(a, v) ==
    LET A == IF Len(v) > Len(a) THEN v ELSE a
        V == IF Len(v) > Len(a) THEN a ELSE v
        M == Len(V)
    IN  IF Len(A) = 0 THEN Raises("ValueError")
        ELSE IF M = 0 THEN Raises("ValueError")
        ELSE Return([n \in 1..(Len(A) - M + 1) |->
                        RatSum([j \in 1..M |-> RatMul(A[n + j - 1], V[M - j + 1])])])

\* a plausible slip: the division by the window is dropped (a moving sum)
moving_sum(data, window) ==
    IF window < 0 THEN Raises("ValueError")
    ELSE convolve_valid(RatSeq(data), [j \in 1..window |-> RInt(1)])

calculate_moving_average(data, window) ==
    IF window < 0 THEN Raises("ValueError")
    ELSE convolve_valid(RatSeq(data), ones_over(window))

----------------------------------------------------------------------------
(* predict_trend *)

RatSq(p) == RatMul(p, p)

\* scipy.stats.linregress(x, y) on sequences of rationals: means and the
\* (biased) covariance matrix, r = 0 when either variance is 0, slope =
\* ssxym / ssxm, intercept = ymean - slope * xmean.  r itself is irrational in
\* general; the record carries r squared, which is all predict_trend uses.
linregress(x, y) ==
    IF Len(x) # Len(y) \/ Len(x) = 0 THEN Raises("ValueError")
    ELSE
      LET n     == RInt(Len(x))
          xmean == RatDiv(RatSum(x), n)
          ymean == RatDiv(RatSum(y), n)
          ssxm  == RatDiv(RatSum([j \in 1..Len(x) |-> RatSq(RatSub(x[j], xmean))]), n)
          ssym  == RatDiv(RatSum([j \in 1..Len(x) |-> RatSq(RatSub(y[j], ymean))]), n)
          ssxym == RatDiv(RatSum([j \in 1..Len(x) |->
                               RatMul(RatSub(x[j], xmean), RatSub(y[j], ymean))]), n)
      IN  IF ssxm.num = 0 THEN Raises("ValueError")
          ELSE
            LET rsq   == IF ssym.num = 0 THEN RInt(0)
                         ELSE RatDiv(RatSq(ssxym), RatMul(ssxm, ssym))
                slope == RatDiv(ssxym, ssxm)
            IN  Return([ slope |-> slope,
                         intercept |-> RatSub(ymean, RatMul(slope, xmean)),
                         rsquared |-> IF RatLt(RInt(1), rsq) THEN RInt(1) ELSE rsq ])

\* a plausible slip: the regression of x on y (the arguments swapped)
predict_trend_swapped(x, y) ==
    LET res == linregress(y, x)
    IN  IF res.error # "" THEN res
        ELSE Return([ slope |-> res.value.slope, intercept |-> res.value.intercept,
                      r2 |-> res.value.rsquared ])

\* slope, intercept, r_value**2
predict_trend(x, y) ==
    LET res == linregress(x, y)
    IN  IF res.error # "" THEN res
        ELSE Return([ slope |-> res.value.slope, intercept |-> res.value.intercept,
                      r2 |-> res.value.rsquared ])

\* np.arange(n), as rationals
arange(n) == [j \in 1..n |-> RInt(j - 1)]

----------------------------------------------------------------------------
(* generate_trend_narrative *)

Metrics == {"temperature", "humidity", "soil_moisture", "light_level", "co2_level"}

trend_descriptions ==
    [ temperature |->
        [ increasing |-> "Temperature is steadily rising, indicating heat accumulation.",
          decreasing |-> "Temperature is declining, suggesting cooling or external climate influences.",
          stable     |-> "Temperature remains relatively constant." ],
      humidity |->
        [ increasing |-> "Humidity is gradually increasing, potentially indicating higher moisture content.",
          decreasing |-> "Humidity is decreasing, making the environment drier.",
          stable     |-> "Humidity remains consistent." ],
      soil_moisture |->
        [ increasing |-> "Soil moisture is increasing, possibly due to irrigation or environmental changes.",
          decreasing |-> "Soil moisture is decreasing, which might require attention to plant hydration.",
          stable     |-> "Soil moisture remains steady." ],
      light_level |->
        [ increasing |-> "Light intensity is continuously increasing, reflecting changing daylight.",
          decreasing |-> "Light intensity is diminishing, possibly due to cloud cover or time of day.",
          stable     |-> "Light intensity remains constant." ],
      co2_level |->
        [ increasing |-> "CO2 concentration is rising, potentially indicating ventilation issues.",
          decreasing |-> "CO2 concentration is dropping, suggesting good ventilation or plant photosynthesis.",
          stable     |-> "CO2 levels remain relatively stable." ] ]

\* a plausible slip: <= in place of < on the threshold
trend_inclusive(slope) ==
    IF RatLe(RatAbs(slope), Rat(1, 100)) THEN "stable"
    ELSE IF RatLt(RInt(0), slope) THEN "increasing"
    ELSE "decreasing"

\* lines 52-57
trend(slope) ==
    IF RatLt(RatAbs(slope), Rat(1, 100)) THEN "stable"
    ELSE IF RatLt(RInt(0), slope) THEN "increasing"
    ELSE "decreasing"

\* line 60
confidence_note(r2) ==
    IF RatLt(Rat(7, 10), r2) THEN "Trend analysis is highly reliable"
    ELSE "Trend analysis should be interpreted cautiously"

\* the nearest integer to a non-negative rational, a tie going to even
RoundHalfEven(p) ==
    LET q == p.num \div p.den
        r == p.num % p.den
    IN  IF 2 * r < p.den THEN q
        ELSE IF 2 * r > p.den THEN q + 1
        ELSE IF q % 2 = 0 THEN q ELSE q + 1

\* f"{r2:.2f}"
format_2f(r2) ==
    LET h    == RoundHalfEven(RatMul(RatAbs(r2), RInt(100)))
        frac == h % 100
    IN  (IF r2.num < 0 THEN "-" ELSE "")
        \o ToString(h \div 100) \o "."
        \o (IF frac < 10 THEN "0" ELSE "") \o ToString(frac)

\* line 62; an unknown parameter is a KeyError
generate_trend_narrative(parameter, slope, r2) ==
    IF parameter \notin DOMAIN trend_descriptions THEN Raises("KeyError")
    ELSE Return(trend_descriptions[parameter][trend(slope)] \o " " \o confidence_note(r2)
                \o ", statistical fit R² = " \o format_2f(r2) \o ".")

----------------------------------------------------------------------------
(* create_visualization *)

\* seq[start:], Python's slice with a possibly negative start
SliceFrom(seq, start) ==
    LET n  == Len(seq)
        s0 == IF start < 0 THEN Max(n + start, 0) ELSE Min(start, n)
    IN  SubSeq(seq, s0 + 1, n)

\* datetime.fromisoformat(timestamp_str).strftime('%H:%M'), as <<hour, minute>>
time_only(t) == <<(t \div 60) % 24, t % 60>>

EmptySeries ==
    [ timestamps |-> <<>>, temperature |-> <<>>, humidity |-> <<>>,
      soil_moisture |-> <<>>, light_level |-> <<>>, co2_level |-> <<>> ]

\* lines 78-92: the documents that carry a 'data' field, in the cursor's order
RECURSIVE Extract(_)
Extract(docs) ==
    IF docs = <<>> THEN EmptySeries
    ELSE
      LET doc  == docs[Len(docs)]
          rest == Extract(SubSeq(docs, 1, Len(docs) - 1))
      IN  IF "data" \in DOMAIN doc
          THEN [ timestamps    |-> Append(rest.timestamps, time_only(doc.timestamp)),
                 temperature   |-> Append(rest.temperature, doc.data.temperature),
                 humidity      |-> Append(rest.humidity, doc.data.humidity),
                 soil_moisture |-> Append(rest.soil_moisture, doc.data.soil_moisture),
                 light_level   |-> Append(rest.light_level, doc.data.light_level),
                 co2_level     |-> Append(rest.co2_level, doc.data.co2_level) ]
          ELSE rest

\* the numbers of a stored list: a temperature is stored in tenths of a degree
Values(metric, list) ==
    IF metric = "temperature" THEN [j \in 1..Len(list) |-> Rat(list[j], 10)]
    ELSE RatSeq(list)

\* default window of calculate_moving_average (line 12)
DefaultWindow == 3

Call(f, len, window) == [fn |-> f, len |-> len, window |-> window]

\* ax.plot(xs, ys) raises ValueError unless both have the same first dimension
PlotOk(xs, ys) == Len(xs) = Len(ys)

\* the moving average of one list and the plot of it against the tail of the
\* time axis (lines 103-111, 129-134, 142-147, 155-160): TRUE when nothing raises
SmoothedPlotOk(metric) ==
    LET ma == calculate_moving_average(series[metric], DefaultWindow)
        L  == Len(series.timestamps)
    IN  /\ ma.error = ""
        /\ PlotOk(SliceFrom(series.timestamps, L - Len(ma.value)), ma.value)

Fit(metric) == predict_trend(arange(Len(series.timestamps)), Values(metric, series[metric]))

NoTrends == [m \in Metrics |-> Pending]

\* how a run that raised inside the try block ends: the generic handler of line
\* 192, unless the except clause of line 190 itself fails to evaluate
RaisedOutcomes == {"An error occurred", "uncaught"}

VizIdle ==
    /\ vpc = "idle" /\ series = EmptySeries /\ trends = NoTrends /\ calls = <<>>
    /\ trend_narratives = <<>> /\ outcome = ""

\* the stored documents: each either lacks 'data' or carries values chosen by
\* two levels, a (temperature, soil moisture, light, CO2) and b (humidity)
StoredDoc(j, c) ==
    IF c = 0 THEN [ timestamp |-> IntervalMinutes * (j - 1) ]
    ELSE LET a == (c - 1) % 2
             b == (c - 1) \div 2
         IN  [ timestamp |-> IntervalMinutes * (j - 1),
               data |-> [ temperature |-> 200 + 15 * a, humidity |-> 70 + 5 * b,
                          soil_moisture |-> 60 + a, light_level |-> 40 * a,
                          co2_level |-> 800 - 50 * a ],
               formatted_data |-> <<IntervalMinutes * (j - 1), 200 + 15 * a, 70 + 5 * b,
                                    60 + a, 40 * a, 800 - 50 * a>> ]

VizStores ==
    UNION { { [j \in 1..n |-> StoredDoc(j, c[j])] : c \in [1..n -> 0..4] } : n \in 0..MaxDocs }

VizInit ==
    /\ vpc = "fetch"
    /\ series = EmptySeries
    /\ trends = NoTrends
    /\ calls = <<>>
    /\ trend_narratives = <<>>
    /\ outcome = ""

\* lines 75-94 and 187-188: read the collection; nothing to plot when it holds
\* no document with a 'data' field
Fetch ==
    /\ vpc = "fetch"
    /\ series' = Extract(collection)
    /\ IF series'.timestamps # <<>>
       THEN vpc' = "temperature" /\ outcome' = outcome
       ELSE vpc' = "done" /\ outcome' = "No data found to plot"
    /\ UNCHANGED <<trends, calls, trend_narratives>>
    /\ UNCHANGED <<genVars, callVars>>

\* lines 96-126: temperature and humidity panel
TemperaturePanel ==
    /\ vpc = "temperature"
    /\ LET L     == Len(series.timestamps)
           maT   == Call("calculate_moving_average", Len(series.temperature), DefaultWindow)
           maH   == Call("calculate_moving_average", Len(series.humidity), DefaultWindow)
           fitC  == Call("predict_trend", L, 0)
           fit   == Fit("temperature")
       IN  IF ~(SmoothedPlotOk("temperature") /\ SmoothedPlotOk("humidity"))
           THEN /\ calls' = calls \o <<maT, maH>>
                /\ trends' = trends
                /\ vpc' = "done" /\ outcome' \in RaisedOutcomes
           ELSE IF fit.error # ""
           THEN /\ calls' = calls \o <<maT, maH, fitC>>
                /\ trends' = trends
                /\ vpc' = "done" /\ outcome' \in RaisedOutcomes
           ELSE /\ calls' = calls \o <<maT, maH, fitC>>
                /\ trends' = [trends EXCEPT !["temperature"] = fit]
                /\ vpc' = "soil_moisture" /\ outcome' = outcome
    /\ UNCHANGED <<series, trend_narratives>>
    /\ UNCHANGED <<genVars, callVars>>

\* lines 128-139, 141-152, 154-165: the panel of one metric, then on to `next`
Panel(metric, next) ==
    /\ vpc = metric
    /\ LET L    == Len(series.timestamps)
           ma   == Call("calculate_moving_average", Len(series[metric]), DefaultWindow)
           fitC == Call("predict_trend", L, 0)
           fit  == Fit(metric)
           maR  == calculate_moving_average(series[metric], DefaultWindow)
       IN  IF maR.error # ""
           THEN /\ calls' = Append(calls, ma)
                /\ trends' = trends
                /\ vpc' = "done" /\ outcome' \in RaisedOutcomes
           ELSE IF fit.error # "" \/ ~SmoothedPlotOk(metric)
           THEN /\ calls' = calls \o <<ma, fitC>>
                /\ trends' = trends
                /\ vpc' = "done" /\ outcome' \in RaisedOutcomes
           ELSE /\ calls' = calls \o <<ma, fitC>>
                /\ trends' = [trends EXCEPT ![metric] = fit]
                /\ vpc' = next /\ outcome' = outcome
    /\ UNCHANGED <<series, trend_narratives>>
    /\ UNCHANGED <<genVars, callVars>>

SoilPanel  == Panel("soil_moisture", "light_level")
LightPanel == Panel("light_level", "co2_level")
Co2Panel   == Panel("co2_level", "narrate")

\* the slope and r2 handed to generate_trend_narrative for a metric (lines 175-179)
narrative_args(metric) ==
    IF metric = "humidity" THEN [ slope |-> RInt(0), r2 |-> RInt(0) ]
    ELSE [ slope |-> trends[metric].value.slope, r2 |-> trends[metric].value.r2 ]

\* lines 167-185: show the figure, build and print the narratives
Narrate ==
    /\ vpc = "narrate"
    /\ trend_narratives' =
         [m \in Metrics |->
            generate_trend_narrative(m, narrative_args(m).slope, narrative_args(m).r2).value]
    /\ vpc' = "done"
    /\ outcome' = "shown"
    /\ UNCHANGED <<series, trends, calls>>
    /\ UNCHANGED <<genVars, callVars>>

create_visualization ==
    \/ Fetch
    \/ TemperaturePanel
    \/ SoilPanel
    \/ LightPanel
    \/ Co2Panel
    \/ Narrate

----------------------------------------------------------------------------
(* One call of a pure function, its arguments drawn from bounded sets *)

CallIdle == fn = "idle" /\ args = <<>> /\ ret = Pending

RECURSIVE SeqsUpTo(_, _)
SeqsUpTo(S, n) ==
    IF n = 0 THEN {<<>>}
    ELSE LET shorter == SeqsUpTo(S, n - 1)
         IN  shorter \cup { Append(q, v) : q \in { r \in shorter : Len(r) = n - 1 }, v \in S }

\* noise samples of the bounds check, in quarters of a standard deviation
NoiseQuarters == {-4 * NoiseMax, -3, 2, 4 * NoiseMax}
Samples(sigma) == { Scaled(sigma, q) : q \in NoiseQuarters }

ReadingArgs ==
    { [i |-> i, noise |-> n] :
        i \in 0..(NumReadings - 1),
        n \in [ temp : Samples(Sigma.temp), humidity : Samples(Sigma.humidity),
                soil_moisture : Samples(Sigma.soil_moisture),
                light : Samples(Sigma.light), co2 : Samples(Sigma.co2) ] }

MovingAverageArgs ==
    { [data |-> d, window |-> w] : d \in SeqsUpTo(0..MaxVal, MaxLen), w \in (-1)..MaxWindow }

\* y = 3 * x + 2 on x = 0..n-1
Line(n) == [j \in 1..n |-> 3 * (j - 1) + 2]

PredictTrendArgs ==
    { [x |-> arange(Len(y)), y |-> RatSeq(y)] :
        y \in SeqsUpTo(0..MaxVal, MaxLen) \cup { Line(n) : n \in 2..MaxLen } }

SlopeSamples ==
    { Rat(-1, 2), Rat(-1, 100), Rat(-1, 200), RInt(0), Rat(1, 200), Rat(99, 10000),
      Rat(1, 100), Rat(2, 100), RInt(3) }
R2Samples ==
    { RInt(0), Rat(1, 3), Rat(7, 10), Rat(701, 1000), Rat(85, 100), Rat(996, 1000), RInt(1) }

NarrativeArgs ==
    { [parameter |-> m, slope |-> sl, r2 |-> r] :
        m \in Metrics \cup {"pressure"}, sl \in SlopeSamples, r \in R2Samples }

CallInit ==
    /\ ret = Pending
    /\ \/ fn = "reading" /\ args \in ReadingArgs
       \/ fn = "calculate_moving_average" /\ args \in MovingAverageArgs
       \/ fn = "predict_trend" /\ args \in PredictTrendArgs
       \/ fn = "generate_trend_narrative" /\ args \in NarrativeArgs

CallReading ==
    /\ fn = "reading" /\ ret = Pending
    /\ ret' = Return(reading(args.i, args.noise))
    /\ UNCHANGED <<fn, args>>
    /\ UNCHANGED <<genVars, vizVars>>

CallMovingAverage ==
    /\ fn = "calculate_moving_average" /\ ret = Pending
    /\ ret' = calculate_moving_average(args.data, args.window)
    /\ UNCHANGED <<fn, args>>
    /\ UNCHANGED <<genVars, vizVars>>

CallPredictTrend ==
    /\ fn = "predict_trend" /\ ret = Pending
    /\ ret' = predict_trend(args.x, args.y)
    /\ UNCHANGED <<fn, args>>
    /\ UNCHANGED <<genVars, vizVars>>

CallNarrative ==
    /\ fn = "generate_trend_narrative" /\ ret = Pending
    /\ ret' = generate_trend_narrative(args.parameter, args.slope, args.r2)
    /\ UNCHANGED <<fn, args>>
    /\ UNCHANGED <<genVars, vizVars>>

Returned == ret.error # "pending"

----------------------------------------------------------------------------
(* Specifications *)

\* one run of send_data
Init == SendInit /\ VizIdle /\ CallIdle
Next == send_data
Spec == Init /\ [][Next]_vars

\* one run of create_visualization on a stored collection
InitViz ==
    /\ pc = "idle" /\ stream = 0 /\ documents = <<>> /\ sample_data = <<>> /\ k = 0
    /\ collection \in VizStores /\ old = collection /\ published = <<>> /\ log = <<>>
    /\ VizInit /\ CallIdle
NextViz == create_visualization
SpecViz == InitViz /\ [][NextViz]_vars

\* one call of generate_data's loop body, calculate_moving_average,
\* predict_trend or generate_trend_narrative
InitCall == GenIdle /\ VizIdle /\ CallInit
NextCall ==
    \/ CallReading
    \/ CallMovingAverage
    \/ CallPredictTrend
    \/ CallNarrative
SpecCall == InitCall /\ [][NextCall]_vars

----------------------------------------------------------------------------
(* Properties *)

RECURSIVE IntSum(_)
IntSum(q) == IF q = <<>> THEN 0 ELSE Head(q) + IntSum(Tail(q))

\* the integers of a sequence of integer-valued rationals
Ints(q) == [j \in 1..Len(q) |-> q[j].num]

Positions(op) == { j \in 1..Len(log) : log[j].op = op }

\* the hour-of-day of an instant t (minutes after midnight), fractional, in
\* half-hours: 00:30 is 1, i.e. h = 0.5
FractionalHour(t) == (t % 1440) \div 30

\* C1: every reading generate_data's loop body produces has 15 <= temperature
\* <= 35 (150..350 tenths), 60 <= humidity <= 90, 50 <= soil_moisture <= 80,
\* light_level >= 0 and co2_level >= 400, whatever the five noise samples are.
C1_ReadingWithinBounds ==
    (fn = "reading" /\ Returned) =>
        LET d == ret.value.data
        IN  /\ 150 <= d.temperature /\ d.temperature <= 350
            /\ 60 <= d.humidity /\ d.humidity <= 90
            /\ 50 <= d.soil_moisture /\ d.soil_moisture <= 80
            /\ d.light_level >= 0
            /\ d.co2_level >= 400

\* a reading whose noise is far in the tails has been clamped on both sides
C1_Witness ==
    /\ fn = "reading" /\ Returned
    /\ args.noise.temp > 100 * Unit /\ ret.value.data.temperature = 350
    /\ args.noise.humidity < -100 * Unit /\ ret.value.data.humidity = 60
    /\ args.noise.co2 < -1000 * Unit /\ ret.value.data.co2_level = 400

\* C2: generate_data builds and returns exactly 48 readings in order, reading
\* number j (from 0) stamped start + 30 * j minutes: strictly increasing,
\* uniformly spaced, none skipped or duplicated.
C2_SeriesOnGrid ==
    /\ \A j \in 1..Len(documents) : documents[j].timestamp = 30 * (j - 1)
    /\ \A j \in 1..(Len(documents) - 1) : documents[j].timestamp < documents[j + 1].timestamp
    /\ Positions("generate") # {} => (Len(sample_data) = 48 /\ sample_data = documents)
    /\ Positions("generate") = {} => sample_data = <<>>

C2_Witness == pc = "delete" /\ Len(sample_data) = 48

\* C3: the cycles of each reading are evaluated at the (fractional) hour of the
\* reading's own instant: with zero noise the document stamped t is the one
\* computed at hour t / 60, so the reading at hh:30 uses hh + 0.5.
C3_CycleAtFractionalHour ==
    stream = 0 =>
        \A j \in 1..Len(documents) :
            documents[j] = Document(documents[j].timestamp,
                                    FractionalHour(documents[j].timestamp), NoiseAt(0, j - 1))

\* C4: for 1 <= w <= L calculate_moving_average returns L - w + 1 elements,
\* element i the mean of input[i..i+w-1]; for w = 1 the input itself, for w = L
\* the single mean of the whole input.
C4_MovingAverageIsWindowMean ==
    (fn = "calculate_moving_average" /\ Returned
        /\ 1 <= args.window /\ args.window <= Len(args.data)) =>
        LET L == Len(args.data)
            w == args.window
        IN  /\ ret.error = ""
            /\ Len(ret.value) = L - w + 1
            /\ \A i \in 1..(L - w + 1) :
                 /\ ret.value[i].den > 0
                 /\ ret.value[i].num * w = ret.value[i].den * IntSum(SubSeq(args.data, i, i + w - 1))
            /\ w = 1 => \A i \in 1..L : ret.value[i] = [num |-> args.data[i], den |-> 1]
            /\ w = L => ret.value[1].num * L = ret.value[1].den * IntSum(args.data)

C4_Witness ==
    /\ fn = "calculate_moving_average" /\ Returned
    /\ args.data = <<0, 1, 2>> /\ args.window = 2
    /\ ret.value = << [num |-> 1, den |-> 2], [num |-> 3, den |-> 2] >>

\* C5: calculate_moving_average fails, returning no sequence, whenever the
\* window is larger than the sequence or smaller than one.
C5_OutOfRangeWindowFails ==
    (fn = "calculate_moving_average" /\ Returned
        /\ (args.window > Len(args.data) \/ args.window < 1)) => ret.error # ""

\* C6: for each of the five metrics generate_trend_narrative returns the table
\* sentence of the direction (stable if |slope| < 0.01, else increasing if
\* slope > 0, else decreasing), then the 'highly reliable' phrase exactly when
\* r2 > 0.7, then R² with two decimals; temperature, 0.02, 0.85 gives the
\* 'steadily rising', 'highly reliable', 'R² = 0.85' sentence.
C6_NarrativeFollowsThresholds ==
    (fn = "generate_trend_narrative" /\ Returned /\ args.parameter \in Metrics) =>
        LET sl  == args.slope
            dir == IF 100 * Abs(sl.num) < sl.den THEN "stable"
                   ELSE IF sl.num > 0 THEN "increasing" ELSE "decreasing"
            phrase == IF 10 * args.r2.num > 7 * args.r2.den
                      THEN "Trend analysis is highly reliable"
                      ELSE "Trend analysis should be interpreted cautiously"
        IN  /\ ret.error = ""
            /\ ret.value = trend_descriptions[args.parameter][dir] \o " " \o phrase
                           \o ", statistical fit R² = " \o format_2f(args.r2) \o "."
            /\ (args.parameter = "temperature" /\ sl = Rat(2, 100) /\ args.r2 = Rat(85, 100)) =>
                 ret.value = "Temperature is steadily rising, indicating heat accumulation. Trend analysis is highly reliable, statistical fit R² = 0.85."
            /\ (args.parameter = "co2_level" /\ sl = Rat(-1, 100) /\ args.r2 = Rat(7, 10)) =>
                 ret.value = "CO2 concentration is dropping, suggesting good ventilation or plant photosynthesis. Trend analysis should be interpreted cautiously, statistical fit R² = 0.70."

C6_Witness ==
    /\ fn = "generate_trend_narrative" /\ Returned
    /\ args.parameter = "humidity" /\ args.slope = Rat(1, 100) /\ args.r2 = Rat(701, 1000)
    /\ ret.value = "Humidity is gradually increasing, potentially indicating higher moisture content. Trend analysis is highly reliable, statistical fit R² = 0.70."

\* C7: for x = 0..L-1 and y of length L >= 2 predict_trend returns the
\* ordinary-least-squares slope and intercept (closed form on the raw sums) and
\* an r_squared in [0,1] equal to the squared Pearson correlation; a constant y
\* gives slope 0 and r_squared 0, and y = 3x + 2 gives 3, 2 and 1.
C7_LeastSquaresFit ==
    (fn = "predict_trend" /\ Returned /\ Len(args.y) >= 2) =>
        LET n   == Len(args.y)
            x   == Ints(args.x)
            y   == Ints(args.y)
            sx  == IntSum(x)
            sy  == IntSum(y)
            sxx == IntSum([j \in 1..n |-> x[j] * x[j]])
            syy == IntSum([j \in 1..n |-> y[j] * y[j]])
            sxy == IntSum([j \in 1..n |-> x[j] * y[j]])
            Sxx == n * sxx - sx * sx
            Syy == n * syy - sy * sy
            Sxy == n * sxy - sx * sy
            v   == ret.value
        IN  /\ ret.error = ""
            /\ v.slope.den > 0 /\ v.intercept.den > 0 /\ v.r2.den > 0
            /\ v.slope.num * Sxx = v.slope.den * Sxy
            /\ v.intercept.num * (n * Sxx) = v.intercept.den * (sy * Sxx - Sxy * sx)
            /\ 0 <= v.r2.num /\ v.r2.num <= v.r2.den
            /\ Syy # 0 => v.r2.num * (Sxx * Syy) = v.r2.den * (Sxy * Sxy)
            /\ Syy = 0 => (v.slope = RInt(0) /\ v.r2 = RInt(0))
            /\ y = Line(n) => (v.slope = RInt(3) /\ v.intercept = RInt(2) /\ v.r2 = RInt(1))

C7_Witness ==
    /\ fn = "predict_trend" /\ Returned
    /\ Ints(args.y) = <<2, 0, 1, 1>>
    /\ ret.value.slope = Rat(-1, 5) /\ ret.value.intercept = Rat(13, 10)
    /\ ret.value.r2 = Rat(1, 10)

\* C8: the humidity narrative create_visualization prints is the narrative of
\* the slope and r_squared predict_trend fits on the humidity series, as for the
\* other four metrics.
C8_HumidityNarrativeIsFitted ==
    outcome = "shown" =>
        LET fit == Fit("humidity")
        IN  /\ fit.error = ""
            /\ trend_narratives["humidity"] =
                 generate_trend_narrative("humidity", fit.value.slope, fit.value.r2).value

\* C9: create_visualization calls calculate_moving_average (window 3) only on
\* at least 3 values and predict_trend only on at least 2, and no run ends in
\* the exception handler.
C9_LengthValidatedBeforeAnalysis ==
    /\ \A j \in 1..Len(calls) :
         /\ calls[j].fn = "calculate_moving_average" => calls[j].len >= 3
         /\ calls[j].fn = "predict_trend" => calls[j].len >= 2
    /\ outcome \notin RaisedOutcomes

\* C10: in every run of send_data, whichever step fails: the collection is
\* cleared only after connect and generation succeeded and before anything is
\* published or inserted; reading j is published, then inserted, then reading
\* j+1 is published; the collection holds the old contents or a prefix of the
\* new series (all 48 after an error-free run); loop_stop and disconnect are
\* each called exactly once, at the end.
C10_SendDataOrdering ==
    /\ \A j \in Positions("delete") :
         /\ \E c \in Positions("connect") : c < j
         /\ \E g \in Positions("generate") : g < j
         /\ \A p \in Positions("publish") \cup Positions("insert") : j < p
    /\ Cardinality(Positions("delete")) <= 1
    /\ collection # old => Positions("delete") # {}
    /\ (Positions("publish") \cup Positions("insert")) # {} => Positions("delete") # {}
    /\ \A j \in Positions("publish") :
         /\ j > 1
         /\ IF log[j].doc = 1 THEN log[j - 1].op = "delete"
            ELSE log[j - 1] = Event("insert", log[j].doc - 1)
    /\ \A j \in Positions("insert") : j > 1 /\ log[j - 1] = Event("publish", log[j].doc)
    /\ \/ collection = old /\ Positions("delete") = {}
       \/ /\ Positions("delete") # {}
          /\ Len(collection) = Cardinality(Positions("insert"))
          /\ collection = SubSeq(sample_data, 1, Len(collection))
    /\ published = [j \in 1..Cardinality(Positions("publish")) |-> sample_data[j].formatted_data]
    /\ (pc = "done" /\ Positions("error") = {}) =>
         (Len(collection) = 48 /\ collection = sample_data /\ Len(published) = 48)
    /\ pc # "done" => Positions("disconnect") = {}
    /\ pc \notin {"disconnect", "done"} => Positions("loop_stop") = {}
    /\ pc = "done" =>
         /\ Cardinality(Positions("loop_stop")) = 1
         /\ Cardinality(Positions("disconnect")) = 1
         /\ log[Len(log) - 1].op = "loop_stop"
         /\ log[Len(log)].op = "disconnect"

\* an error-free run over a collection that held older documents
C10_Witness ==
    /\ pc = "done" /\ Positions("error") = {}
    /\ old = <<LegacyDoc, BareDoc>>
    /\ Len(collection) = 48

\* a run that failed at an insert, after three documents were stored
C10_WitnessFailedInsert ==
    /\ pc = "done" /\ Positions("error") # {}
    /\ Cardinality(Positions("publish")) = 4 /\ Len(collection) = 3

=============================================================================
